---- MODULE Spec2Model ----
(***************************************************************************)
(* Piano typer: MIDI events are decoded into Keystrokes (midi.py,          *)
(* packaging.py), the Program of main.py keeps the set of held keystrokes  *)
(* and turns keystrokes into keyboard / mouse calls.                       *)
(*                                                                         *)
(* Python strings are sequences of one-character strings, so that the      *)
(* string form note + str(octave) is computed and not assumed.  A Python   *)
(* object is a record with a cls field: "Keystroke" or "str".  A Python    *)
(* set is a bag of its entries: the code relies on __hash__ / __eq__ to    *)
(* keep one entry per key, and the bag shows a second entry if they fail.  *)
(***************************************************************************)
EXTENDS Integers, Sequences, FiniteSets, Bags, TLC

VARIABLES
    keybinds,          \* Keybinds.KEYBOARD / MOUSE / CURSOR / QUIT / SLOW
    PIANO_MODE,        \* Program.PIANO_MODE
    sensitivity,       \* Program.sensitivity
    framerate,         \* Program.framerate
    held_keystrokes,   \* Program.held_keystrokes
    pc,                \* position of Program.run
    run,               \* local variable run of Program.run
    midi_open,         \* the MIDI input handle is open
    displayed,         \* what Display.refresh drew last
    keystrokes,        \* history: keystrokes returned by get_keystrokes in this frame
    applied,           \* history: one entry per keystroke handled in this frame
    moves,             \* history: mouse.move calls of this frame
    clock_only,        \* history: the batch read in this frame held only clock events
    closed,            \* history: Display.is_closed() was true in this frame
    last_event,        \* history: last action applied per full note
    event,             \* codec: the MIDI event under decoding
    other_event,       \* codec: a second MIDI event, for comparisons
    decoded,           \* codec: result of get_keystrokes on <<event>>
    compared,          \* codec: result of comparing the two decoded keystrokes
    keys_down,         \* the keyboard / mouse keys that the calls made so far leave pressed
    held_directions,   \* piano_control: the global list held_directions
    stop_event,        \* piano_control: the Event stop_event of main
    input_pc,          \* piano_control: position of the thread of input_loop
    cursor_pc,         \* piano_control: position of the thread of cursor_loop
    cursor_idx,        \* piano_control: index of the list iterator of cursor_loop
    main_pc,           \* piano_control: position of main
    ctor_args,         \* constructor: the arguments given to Keystroke
    ctor_result,       \* constructor: the object it made or the exception it raised
    policy_keys,       \* policies: the key events fed to both programs
    policy_result      \* policies: the cursor moves of one tick of each program

vars == <<keybinds, PIANO_MODE, sensitivity, framerate, held_keystrokes, pc, run,
          midi_open, displayed, keystrokes, applied, moves, clock_only, closed,
          last_event, event, other_event, decoded, compared, keys_down,
          held_directions, stop_event, input_pc, cursor_pc, cursor_idx, main_pc,
          ctor_args, ctor_result, policy_keys, policy_result>>

\* ---------------------------------------------------------------- bounds
NumKeys == 2          \* piano keys the modelled player touches
MaxBatch == 2         \* events one read returns in the model, at most MIDI_READS
HashBuckets == 5      \* range of the modelled string hash

\* ---------------------------------------------------------------- strings
Range(f) == {f[i] : i \in DOMAIN f}

Min(a, b) == IF a < b THEN a ELSE b

DIGITS == <<"0", "1", "2", "3", "4", "5", "6", "7", "8", "9">>

\* str(int) of a non-negative integer: its decimal digits
RECURSIVE str_int(_)
str_int(n) ==
    IF n < 10 THEN <<DIGITS[n + 1]>>
    ELSE Append(str_int(n \div 10), DIGITS[(n % 10) + 1])

\* str.upper on the characters note names are written with
upper_char(c) ==
    CASE c = "a" -> "A" [] c = "b" -> "B" [] c = "c" -> "C" [] c = "d" -> "D"
      [] c = "e" -> "E" [] c = "f" -> "F" [] c = "g" -> "G" [] OTHER -> c

upper(s) == [i \in DOMAIN s |-> upper_char(s[i])]

\* character code, as far as the modelled hash needs one
ord(c) ==
    CASE c = "A" -> 65 [] c = "B" -> 66 [] c = "C" -> 67 [] c = "D" -> 68
      [] c = "E" -> 69 [] c = "F" -> 70 [] c = "G" -> 71 [] c = "#" -> 35
      [] c = "0" -> 48 [] c = "1" -> 49 [] c = "2" -> 50 [] c = "3" -> 51
      [] c = "4" -> 52 [] c = "5" -> 53 [] c = "6" -> 54 [] c = "7" -> 55
      [] c = "8" -> 56 [] c = "9" -> 57 [] OTHER -> 0

\* hash(str): a function of the characters only, with collisions
RECURSIVE str_hash(_)
str_hash(s) ==
    IF s = <<>> THEN 0
    ELSE (str_hash(SubSeq(s, 1, Len(s) - 1)) * 31 + ord(s[Len(s)])) % HashBuckets

Str(s) == [cls |-> "str", val |-> s]

\* ---------------------------------------------------------------- packaging.py
\* Keystroke.ACTIONS (ACTIONS is a reserved word of TLA+)
ACTION_NAMES == <<"release", "press">>

NOTES == << <<"C">>, <<"C", "#">>, <<"D">>, <<"D", "#">>, <<"E">>, <<"F">>,
            <<"F", "#">>, <<"G">>, <<"G", "#">>, <<"A">>, <<"A", "#">>, <<"B">> >>

\* Keystroke.__init__: the new object, or the exception it raises
Keystroke(note, octave, press) ==
    LET n == upper(note) IN
    IF n \notin Range(NOTES) THEN [cls |-> "ValueError"]
    ELSE IF octave < 0 THEN [cls |-> "AttributeError"]   \* reads self.octave before it is set
    ELSE [cls |-> "Keystroke", note |-> n, octave |-> octave, press |-> press,
          full_note |-> n \o str_int(octave)]

\* Keystroke.__str__
Keystroke_str(self) == self.full_note

\* the press flag of a keystroke, read by main.py and visuals.py as
\* keystroke.is_press; packaging.py stores the flag as self.press
is_press(self) == self.press

\* Keystroke.__eq__ as it would be if the press flag were part of equality
Keystroke_eq_with_press(self, other) ==
    IF other.cls = "Keystroke"
    THEN self.full_note = other.full_note /\ self.press = other.press
    ELSE FALSE

\* Keystroke.__eq__
Keystroke_eq(self, other) ==
    IF other.cls = "Keystroke" THEN self.full_note = other.full_note ELSE FALSE

\* Keystroke.__hash__
Keystroke_hash(self) == str_hash(self.full_note)

\* a == b as Python evaluates it for Keystroke and str operands: a's __eq__,
\* and the reflected __eq__ of b when a is a str and b is not
py_eq(a, b) ==
    IF a.cls = "Keystroke" THEN Keystroke_eq(a, b)
    ELSE IF b.cls = "Keystroke" THEN Keystroke_eq(b, a)
    ELSE a.val = b.val

py_hash(a) == IF a.cls = "Keystroke" THEN Keystroke_hash(a) ELSE str_hash(a.val)

\* x in S for a set S: an entry with the hash of x that compares equal to x
set_contains(S, x) ==
    \E e \in BagToSet(S) : py_hash(e) = py_hash(x) /\ py_eq(e, x)

\* S.add(x) as it would be without the lookup
set_add_always(S, x) == S (+) SetToBag({x})

\* S.add(x): keeps the entry already there
set_add(S, x) == IF set_contains(S, x) THEN S ELSE S (+) SetToBag({x})

\* S.remove(x) as it would be if it dropped nothing
set_remove_keeps(S, x) ==
    IF set_contains(S, x) THEN [raised |-> "", set |-> S]
    ELSE [raised |-> "KeyError", set |-> S]

\* S.remove(x): drops the one entry found, KeyError when there is none
set_remove(S, x) ==
    IF set_contains(S, x)
    THEN LET found == CHOOSE e \in BagToSet(S) : py_hash(e) = py_hash(x) /\ py_eq(e, x)
         IN [raised |-> "", set |-> S (-) SetToBag({found})]
    ELSE [raised |-> "KeyError", set |-> S]

\* x in D as it would be if a Keystroke compared equal to its string form
dict_contains_by_str(D, x) ==
    \E s \in DOMAIN D : s = (IF x.cls = "Keystroke" THEN x.full_note ELSE x.val)

\* x in D for a dict D with str keys
dict_contains(D, x) ==
    \E s \in DOMAIN D : py_hash(Str(s)) = py_hash(x) /\ py_eq(Str(s), x)

\* ---------------------------------------------------------------- midi.py
MIDI_READS == 3

CLOCK == 248

\* create_keystroke with octave and note index taken the wrong way round
create_keystroke_swapped(ev) ==
    LET note_index == ev[2] \div Len(NOTES)
        octave == ev[2] % Len(NOTES)
        press == ev[3] # 64
    IN Keystroke(NOTES[note_index + 1], octave, press)

\* create_keystroke with every velocity up to 64 read as a release
create_keystroke_soft(ev) ==
    LET octave == ev[2] \div Len(NOTES)
        note_index == ev[2] % Len(NOTES)
        press == ev[3] > 64
    IN Keystroke(NOTES[note_index + 1], octave, press)

\* create_keystroke: event is <<status, data1, data2>>
create_keystroke(ev) ==
    LET octave == ev[2] \div Len(NOTES)
        note_index == ev[2] % Len(NOTES)
        press == ev[3] # 64
    IN Keystroke(NOTES[note_index + 1], octave, press)

\* the filter of get_keystrokes without its test of the status byte
RECURSIVE filter_events_any_status(_)
filter_events_any_status(evs) ==
    IF evs = <<>> THEN <<>>
    ELSE LET ev == Head(evs) IN
         IF ev[3] # 0
         THEN <<ev>> \o filter_events_any_status(Tail(evs))
         ELSE filter_events_any_status(Tail(evs))

\* the filter of get_keystrokes
RECURSIVE filter_events(_)
filter_events(evs) ==
    IF evs = <<>> THEN <<>>
    ELSE LET ev == Head(evs) IN
         IF ev[1] # CLOCK /\ ev[3] # 0
         THEN <<ev>> \o filter_events(Tail(evs))
         ELSE filter_events(Tail(evs))

\* get_keystrokes: poll is the result of midi_device.poll(), read_ok is
\* FALSE when midi_device.read raises, evs is what read returns
get_keystrokes(poll, read_ok, evs) ==
    IF ~poll THEN <<>>
    ELSE IF ~read_ok THEN <<>>
    ELSE LET kept == filter_events(evs)
             made == [i \in DOMAIN kept |-> create_keystroke(kept[i])]
         IN IF \E i \in DOMAIN made : made[i].cls # "Keystroke" THEN <<>>
            ELSE made

\* ---------------------------------------------------------------- main.py
SENSITIVITY == 100

FRAMERATE == 60

\* note ids as the keybinds file writes them
A_SHARP_4 == <<"A", "#", "4">>
F_6 == <<"F", "6">>
C_7 == <<"C", "7">>
C_8 == <<"C", "8">>
G_6 == <<"G", "6">>
F_4 == <<"F", "4">>

EMPTY_DICT == [s \in {} |-> 0]

\* Keybinds: the documents keybinds.json is modelled to hold.  The first has
\* disjoint tables, the others bind one note id in several places.
KeybindFiles ==
    { [KEYBOARD |-> (A_SHARP_4 :> "w"),
       MOUSE |-> (G_6 :> "left"),
       CURSOR |-> (F_6 :> <<-1, 0>>) @@ (C_7 :> <<1, 0>>),
       QUIT |-> C_8, SLOW |-> F_4],
      [KEYBOARD |-> (A_SHARP_4 :> "w") @@ (F_6 :> "a"),
       MOUSE |-> (A_SHARP_4 :> "left") @@ (C_7 :> "right"),
       CURSOR |-> (A_SHARP_4 :> <<1, 0>>) @@ (F_6 :> <<-1, 0>>) @@ (C_7 :> <<0, 1>>),
       QUIT |-> A_SHARP_4, SLOW |-> C_7],
      [KEYBOARD |-> (C_7 :> "d"),
       MOUSE |-> EMPTY_DICT,
       CURSOR |-> (A_SHARP_4 :> <<0, -1>>),
       QUIT |-> F_6, SLOW |-> A_SHARP_4] }

\* data1 of the piano keys the player touches: A#4, F6, C7, C8, G6, A#6
PoolKeys == <<58, 77, 84, 96, 79, 82>>

Data1Values == {PoolKeys[i] : i \in 1..Min(NumKeys, Len(PoolKeys))}

NOTE_ON == 144

Data2Values == {0, 64, 100}

\* events of the player's keys, and the clock events between them that the
\* velocity test alone would let through
EventSpace ==
    {<<NOTE_ON, d1, d2>> : d1 \in Data1Values, d2 \in Data2Values}
        \cup {<<CLOCK, d1, d2>> : d1 \in Data1Values, d2 \in Data2Values \ {0}}

\* what midi_device.read(MIDI_READS) can return once poll() is true
BatchSpace == UNION {[1..n -> EventSpace] : n \in 1..Min(MaxBatch, MIDI_READS)}

\* round(n / d) of Python 3 for n >= 0, d > 0: ties go to the even integer
py_round(n, d) ==
    LET q == n \div d
        r == n % d
    IN IF 2 * r < d THEN q
       ELSE IF 2 * r > d THEN q + 1
       ELSE IF q % 2 = 0 THEN q ELSE q + 1

\* Program.update_held_keystrokes as it would be if a release were ignored
update_held_keystrokes_no_release(held, keystroke) ==
    IF is_press(keystroke) THEN [raised |-> "", held |-> set_add(held, keystroke)]
    ELSE [raised |-> "", held |-> held]

\* Program.update_held_keystrokes as it would be without the membership test
update_held_keystrokes_unguarded(held, keystroke) ==
    IF is_press(keystroke) THEN [raised |-> "", held |-> set_add(held, keystroke)]
    ELSE LET r == set_remove(held, keystroke) IN [raised |-> r.raised, held |-> r.set]

\* Program.update_held_keystrokes
update_held_keystrokes(held, keystroke) ==
    IF is_press(keystroke) THEN [raised |-> "", held |-> set_add(held, keystroke)]
    ELSE IF ~is_press(keystroke) /\ set_contains(held, keystroke)
         THEN LET r == set_remove(held, keystroke) IN [raised |-> r.raised, held |-> r.set]
    ELSE [raised |-> "", held |-> held]

Call(dev, op, hotkey) == [dev |-> dev, op |-> op, hotkey |-> hotkey]

\* Program.process_button: the device calls it makes
process_button(kb, keystroke) ==
    IF dict_contains(kb.KEYBOARD, keystroke)
    THEN IF Keystroke_str(keystroke) \notin DOMAIN kb.KEYBOARD
         THEN [raised |-> "KeyError", calls |-> <<>>]
         ELSE LET hotkey == kb.KEYBOARD[Keystroke_str(keystroke)] IN
              [raised |-> "",
               calls |-> <<Call("keyboard",
                                IF is_press(keystroke) THEN "press" ELSE "release", hotkey)>>]
    ELSE IF dict_contains(kb.MOUSE, keystroke)
    THEN IF Keystroke_str(keystroke) \notin DOMAIN kb.MOUSE
         THEN [raised |-> "KeyError", calls |-> <<>>]
         ELSE LET hotkey == kb.MOUSE[Keystroke_str(keystroke)] IN
              [raised |-> "",
               calls |-> <<Call("mouse",
                                IF is_press(keystroke) THEN "press" ELSE "release", hotkey)>>]
    ELSE [raised |-> "", calls |-> <<>>]

\* sum of one axis over the entries of a bag of direction keys
RECURSIVE sum_axis(_, _, _, _)
sum_axis(kb, B, S, axis) ==
    IF S = {} THEN 0
    ELSE LET e == CHOOSE x \in S : TRUE IN
         CopiesIn(e, B) * kb.CURSOR[Keystroke_str(e)][axis]
             + sum_axis(kb, B, S \ {e}, axis)

\* the speed of Program.process_cursor: 1 when Keybinds.SLOW is found in
\* the held set, 5 otherwise
cursor_speed(kb, held) ==
    IF set_contains(held, Str(kb.SLOW)) THEN 1 ELSE 5

\* Program.process_cursor as it would be if it found the held keys in the
\* cursor table by their string form and moved by one held direction
\* instead of the sum
process_cursor_one_direction(kb, held, sens, rate) ==
    IF held = EmptyBag THEN <<>>
    ELSE LET directed == {e \in BagToSet(held) : Keystroke_str(e) \in DOMAIN kb.CURSOR} IN
         IF directed = {} THEN <<>>
         ELSE LET speed == cursor_speed(kb, held)
                  move_factor == py_round(sens * speed, rate)
                  direction == kb.CURSOR[Keystroke_str(CHOOSE e \in directed : TRUE)]
              IN << <<direction[1] * move_factor, direction[2] * move_factor>> >>

\* Program.process_cursor as it would be without its two early returns
process_cursor_no_return(kb, held, sens, rate) ==
    LET directed == {e \in BagToSet(held) : dict_contains(kb.CURSOR, e)}
        speed == cursor_speed(kb, held)
        move_factor == py_round(sens * speed, rate)
    IN << <<sum_axis(kb, held, directed, 1) * move_factor,
            sum_axis(kb, held, directed, 2) * move_factor>> >>

\* Program.process_cursor: the mouse.move calls it makes
process_cursor(kb, held, sens, rate) ==
    IF held = EmptyBag THEN <<>>
    ELSE LET directed == {e \in BagToSet(held) : dict_contains(kb.CURSOR, e)} IN
         IF directed = {} THEN <<>>
         ELSE LET speed == cursor_speed(kb, held)
                  move_factor == py_round(sens * speed, rate)
              IN << <<sum_axis(kb, held, directed, 1) * move_factor,
                      sum_axis(kb, held, directed, 2) * move_factor>> >>

\* the keys of the emulated keyboard and mouse that are down after a
\* sequence of press / release calls
RECURSIVE device_calls(_, _)
device_calls(down, calls) ==
    IF calls = <<>> THEN down
    ELSE LET c == Head(calls) IN
         device_calls(IF c.op = "press" THEN down \cup {<<c.dev, c.hotkey>>}
                      ELSE down \ {<<c.dev, c.hotkey>>},
                      Tail(calls))

\* one entry of the history of a frame: what handling one keystroke did,
\* steps being the methods of Program called for it, in the order of the calls
Handled(keystroke, quit, before, after, calls, raised, steps) ==
    [keystroke |-> keystroke, quit |-> quit, before |-> before, after |-> after,
     calls |-> calls, raised |-> raised, steps |-> steps]

\* the for loop of Program._logic_tick as it would be if piano mode left out
\* update_held_keystrokes together with process_button
RECURSIVE handle_keystrokes_piano_idle(_, _, _, _, _)
handle_keystrokes_piano_idle(kb, piano_mode, todo, held, done) ==
    IF todo = <<>> THEN [quit |-> FALSE, raised |-> "", held |-> held, done |-> done]
    ELSE LET keystroke == Head(todo) IN
         IF py_eq(keystroke, Str(kb.QUIT)) /\ ~piano_mode
         THEN [quit |-> TRUE, raised |-> "", held |-> held,
               done |-> Append(done, Handled(keystroke, TRUE, held, held, <<>>, "", <<>>))]
         ELSE LET upd == IF ~piano_mode
                         THEN update_held_keystrokes(held, keystroke)
                         ELSE [raised |-> "", held |-> held]
                  btn == IF ~piano_mode /\ upd.raised = ""
                         THEN process_button(kb, keystroke)
                         ELSE [raised |-> "", calls |-> <<>>]
                  raised == IF upd.raised # "" THEN upd.raised ELSE btn.raised
                  steps == (IF piano_mode THEN <<>> ELSE <<"update_held_keystrokes">>)
                               \o (IF ~piano_mode /\ upd.raised = ""
                                   THEN <<"process_button">> ELSE <<>>)
                  entry == Handled(keystroke, FALSE, held, upd.held, btn.calls, raised, steps)
              IN IF raised # ""
                 THEN [quit |-> FALSE, raised |-> raised, held |-> upd.held,
                       done |-> Append(done, entry)]
                 ELSE handle_keystrokes_piano_idle(kb, piano_mode, Tail(todo), upd.held,
                                                   Append(done, entry))

\* the for loop of Program._logic_tick as it would be if process_button
\* emptied the held set
RECURSIVE handle_keystrokes_button_writes(_, _, _, _, _)
handle_keystrokes_button_writes(kb, piano_mode, todo, held, done) ==
    IF todo = <<>> THEN [quit |-> FALSE, raised |-> "", held |-> held, done |-> done]
    ELSE LET keystroke == Head(todo) IN
         IF py_eq(keystroke, Str(kb.QUIT)) /\ ~piano_mode
         THEN [quit |-> TRUE, raised |-> "", held |-> held,
               done |-> Append(done, Handled(keystroke, TRUE, held, held, <<>>, "", <<>>))]
         ELSE LET upd == update_held_keystrokes(held, keystroke)
                  btn == IF ~piano_mode /\ upd.raised = ""
                         THEN process_button(kb, keystroke)
                         ELSE [raised |-> "", calls |-> <<>>]
                  raised == IF upd.raised # "" THEN upd.raised ELSE btn.raised
                  steps == <<"update_held_keystrokes">>
                               \o (IF ~piano_mode /\ upd.raised = ""
                                   THEN <<"process_button">> ELSE <<>>)
                  entry == Handled(keystroke, FALSE, held, upd.held, btn.calls, raised, steps)
                  left == IF piano_mode THEN upd.held ELSE EmptyBag
              IN IF raised # ""
                 THEN [quit |-> FALSE, raised |-> raised, held |-> left,
                       done |-> Append(done, entry)]
                 ELSE handle_keystrokes_button_writes(kb, piano_mode, Tail(todo), left,
                                                      Append(done, entry))

\* the for loop of Program._logic_tick over the keystrokes not yet handled:
\* the for loop of _logic_tick as it would be if the quit test looked at
\* str(keystroke) and not at PIANO_MODE
RECURSIVE handle_keystrokes_quit_in_piano_mode(_, _, _, _, _)
handle_keystrokes_quit_in_piano_mode(kb, piano_mode, todo, held, done) ==
    IF todo = <<>> THEN [quit |-> FALSE, raised |-> "", held |-> held, done |-> done]
    ELSE LET keystroke == Head(todo) IN
         IF Keystroke_str(keystroke) = kb.QUIT
         THEN [quit |-> TRUE, raised |-> "", held |-> held,
               done |-> Append(done, Handled(keystroke, TRUE, held, held, <<>>, "", <<>>))]
         ELSE LET upd == update_held_keystrokes(held, keystroke)
                  btn == IF ~piano_mode /\ upd.raised = ""
                         THEN process_button(kb, keystroke)
                         ELSE [raised |-> "", calls |-> <<>>]
                  raised == IF upd.raised # "" THEN upd.raised ELSE btn.raised
                  steps == <<"update_held_keystrokes">>
                               \o (IF ~piano_mode /\ upd.raised = ""
                                   THEN <<"process_button">> ELSE <<>>)
                  entry == Handled(keystroke, FALSE, held, upd.held, btn.calls, raised, steps)
              IN IF raised # ""
                 THEN [quit |-> FALSE, raised |-> raised, held |-> upd.held,
                       done |-> Append(done, entry)]
                 ELSE handle_keystrokes_quit_in_piano_mode(kb, piano_mode, Tail(todo),
                                                           upd.held, Append(done, entry))

\* the for loop of _logic_tick as it would be if it took the keystrokes of
\* the batch newest first
RECURSIVE handle_keystrokes_newest_first(_, _, _, _, _)
handle_keystrokes_newest_first(kb, piano_mode, todo, held, done) ==
    IF todo = <<>> THEN [quit |-> FALSE, raised |-> "", held |-> held, done |-> done]
    ELSE LET keystroke == todo[Len(todo)] IN
         IF py_eq(keystroke, Str(kb.QUIT)) /\ ~piano_mode
         THEN [quit |-> TRUE, raised |-> "", held |-> held,
               done |-> Append(done, Handled(keystroke, TRUE, held, held, <<>>, "", <<>>))]
         ELSE LET upd == update_held_keystrokes(held, keystroke)
                  btn == IF ~piano_mode /\ upd.raised = ""
                         THEN process_button(kb, keystroke)
                         ELSE [raised |-> "", calls |-> <<>>]
                  raised == IF upd.raised # "" THEN upd.raised ELSE btn.raised
                  steps == <<"update_held_keystrokes">>
                               \o (IF ~piano_mode /\ upd.raised = ""
                                   THEN <<"process_button">> ELSE <<>>)
                  entry == Handled(keystroke, FALSE, held, upd.held, btn.calls, raised, steps)
              IN IF raised # ""
                 THEN [quit |-> FALSE, raised |-> raised, held |-> upd.held,
                       done |-> Append(done, entry)]
                 ELSE handle_keystrokes_newest_first(kb, piano_mode,
                                                     SubSeq(todo, 1, Len(todo) - 1),
                                                     upd.held, Append(done, entry))

\* done holds one entry per keystroke handled so far
RECURSIVE handle_keystrokes(_, _, _, _, _)
handle_keystrokes(kb, piano_mode, todo, held, done) ==
    IF todo = <<>> THEN [quit |-> FALSE, raised |-> "", held |-> held, done |-> done]
    ELSE LET keystroke == Head(todo) IN
         IF py_eq(keystroke, Str(kb.QUIT)) /\ ~piano_mode
         THEN [quit |-> TRUE, raised |-> "", held |-> held,
               done |-> Append(done, Handled(keystroke, TRUE, held, held, <<>>, "", <<>>))]
         ELSE LET upd == update_held_keystrokes(held, keystroke)
                  btn == IF ~piano_mode /\ upd.raised = ""
                         THEN process_button(kb, keystroke)
                         ELSE [raised |-> "", calls |-> <<>>]
                  raised == IF upd.raised # "" THEN upd.raised ELSE btn.raised
                  steps == <<"update_held_keystrokes">>
                               \o (IF ~piano_mode /\ upd.raised = ""
                                   THEN <<"process_button">> ELSE <<>>)
                  entry == Handled(keystroke, FALSE, held, upd.held, btn.calls, raised, steps)
              IN IF raised # ""
                 THEN [quit |-> FALSE, raised |-> raised, held |-> upd.held,
                       done |-> Append(done, entry)]
                 ELSE handle_keystrokes(kb, piano_mode, Tail(todo), upd.held,
                                        Append(done, entry))

KeyOf(keystroke) == <<keystroke.note, keystroke.octave>>

\* history: the last action applied to each key by update_held_keystrokes
\* the device calls of a frame, in the order they were made
RECURSIVE calls_of(_)
calls_of(done) ==
    IF done = <<>> THEN <<>> ELSE Head(done).calls \o calls_of(Tail(done))

RECURSIVE record_events(_, _)
record_events(last, done) ==
    IF done = <<>> THEN last
    ELSE LET d == Head(done) IN
         record_events(IF d.quit \/ d.raised # "" \/ KeyOf(d.keystroke) \notin DOMAIN last
                       THEN last
                       ELSE [last EXCEPT ![KeyOf(d.keystroke)] =
                                ACTION_NAMES[IF d.keystroke.press THEN 2 ELSE 1]],
                       Tail(done))

\* the keys of the player, as (note, octave) pairs
PoolNotes == {KeyOf(create_keystroke(<<NOTE_ON, d1, 100>>)) : d1 \in Data1Values}

\* piano_control.py is not running
ControlIdle ==
    /\ held_directions = <<>>
    /\ stop_event = FALSE
    /\ input_pc = "idle"
    /\ cursor_pc = "idle"
    /\ cursor_idx = 0
    /\ main_pc = "idle"

\* no function is under study on its own
UnitIdle ==
    /\ ctor_args = <<>>
    /\ ctor_result = <<>>
    /\ policy_keys = <<>>
    /\ policy_result = <<>>

Init ==
    /\ keybinds \in KeybindFiles
    /\ PIANO_MODE \in BOOLEAN
    /\ sensitivity = SENSITIVITY
    /\ framerate = FRAMERATE
    /\ held_keystrokes = EmptyBag
    /\ pc = "logic_tick"
    /\ run = TRUE
    /\ midi_open = TRUE
    /\ displayed = EmptyBag
    /\ keystrokes = <<>>
    /\ applied = <<>>
    /\ moves = <<>>
    /\ clock_only = FALSE
    /\ closed = FALSE
    /\ last_event = [k \in PoolNotes |-> "none"]
    /\ event = <<>>
    /\ other_event = <<>>
    /\ decoded = <<>>
    /\ compared = <<>>
    /\ keys_down = {}
    /\ ControlIdle
    /\ UnitIdle

codec_vars == <<event, other_event, decoded, compared>>
config_vars == <<keybinds, PIANO_MODE, sensitivity, framerate>>
frame_vars == <<keystrokes, applied, moves, clock_only, closed>>
control_vars == <<held_directions, stop_event, input_pc, cursor_pc, cursor_idx, main_pc>>
unit_vars == <<ctor_args, ctor_result, policy_keys, policy_result>>

\* Program._logic_tick when the display reports closed
LogicTickClosed ==
    /\ pc = "logic_tick"
    /\ run' = FALSE
    /\ pc' = "clock_tick"
    /\ closed' = TRUE
    /\ UNCHANGED <<held_keystrokes, midi_open, displayed, last_event>>
    /\ UNCHANGED <<keystrokes, applied, moves, clock_only>>
    /\ UNCHANGED <<config_vars, codec_vars>>
    /\ UNCHANGED <<keys_down, control_vars, unit_vars>>

\* Program._logic_tick with the display open
LogicTickRead(poll, read_ok, evs) ==
    /\ pc = "logic_tick"
    /\ \E got \in {get_keystrokes(poll, read_ok, evs)} :
       \E res \in {handle_keystrokes(keybinds, PIANO_MODE, got, held_keystrokes, <<>>)} :
          /\ keystrokes' = got
          /\ applied' = res.done
          /\ held_keystrokes' = res.held
          /\ last_event' = record_events(last_event, res.done)
          /\ keys_down' = device_calls(keys_down, calls_of(res.done))
          /\ clock_only' = (poll /\ read_ok /\ \A i \in DOMAIN evs : evs[i][1] = CLOCK)
          /\ closed' = FALSE
          /\ IF res.raised # ""
             THEN \* the exception leaves the try block of Program.run
                  /\ pc' = "close"
                  /\ UNCHANGED <<run, moves, displayed>>
             ELSE IF res.quit
             THEN /\ run' = FALSE
                  /\ pc' = "clock_tick"
                  /\ UNCHANGED <<moves, displayed>>
             ELSE /\ run' = TRUE
                  /\ pc' = "clock_tick"
                  /\ moves' = IF ~PIANO_MODE
                              THEN process_cursor(keybinds, res.held, sensitivity, framerate)
                              ELSE <<>>
                  /\ displayed' = res.held
    /\ UNCHANGED <<midi_open, config_vars, codec_vars>>
    /\ UNCHANGED <<control_vars, unit_vars>>

LogicTick ==
    \/ LogicTickClosed
    \/ LogicTickRead(FALSE, TRUE, <<>>)
    \/ LogicTickRead(TRUE, FALSE, <<>>)
    \/ \E evs \in BatchSpace : LogicTickRead(TRUE, TRUE, evs)

\* Program.tick with a loop of Program.run that would not test run
ClockTick_restarts ==
    /\ pc = "clock_tick"
    /\ pc' = "logic_tick"
    /\ keystrokes' = <<>>
    /\ applied' = <<>>
    /\ moves' = <<>>
    /\ clock_only' = FALSE
    /\ closed' = FALSE
    /\ UNCHANGED <<held_keystrokes, run, midi_open, displayed, last_event>>
    /\ UNCHANGED <<config_vars, codec_vars>>
    /\ UNCHANGED <<keys_down, control_vars, unit_vars>>

\* Program.tick, and the test of the while loop of Program.run.  The history
\* of the frame ends here.
ClockTick ==
    /\ pc = "clock_tick"
    /\ pc' = IF run THEN "logic_tick" ELSE "close"
    /\ keystrokes' = <<>>
    /\ applied' = <<>>
    /\ moves' = <<>>
    /\ clock_only' = FALSE
    /\ closed' = FALSE
    /\ UNCHANGED <<held_keystrokes, run, midi_open, displayed, last_event>>
    /\ UNCHANGED <<config_vars, codec_vars>>
    /\ UNCHANGED <<keys_down, control_vars, unit_vars>>

\* KeyboardInterrupt inside the try block of Program.run
Interrupt ==
    /\ pc \in {"logic_tick", "clock_tick"}
    /\ pc' = "close"
    /\ UNCHANGED <<held_keystrokes, run, midi_open, displayed, last_event>>
    /\ UNCHANGED <<config_vars, frame_vars, codec_vars>>
    /\ UNCHANGED <<keys_down, control_vars, unit_vars>>

\* the finally block of Program.run with a Program.close that would close
\* the display alone
Close_display_only ==
    /\ pc = "close"
    /\ pc' = "exited"
    /\ UNCHANGED <<held_keystrokes, run, midi_open, displayed, last_event>>
    /\ UNCHANGED <<config_vars, frame_vars, codec_vars>>
    /\ UNCHANGED <<keys_down, control_vars, unit_vars>>

\* Program.close, the finally block of Program.run
Close ==
    /\ pc = "close"
    /\ midi_open' = FALSE
    /\ pc' = "exited"
    /\ UNCHANGED <<held_keystrokes, run, displayed, last_event>>
    /\ UNCHANGED <<config_vars, frame_vars, codec_vars>>
    /\ UNCHANGED <<keys_down, control_vars, unit_vars>>

Next == LogicTick \/ ClockTick \/ Interrupt \/ Close

Spec == Init /\ [][Next]_vars

\* Program.run goes on by itself: after _logic_tick it calls tick and tests
\* run, and its finally block calls close.  Nothing makes MIDI events or a
\* closed display arrive, and nothing makes an interrupt arrive.
FairSpec == Spec /\ WF_vars(ClockTick) /\ WF_vars(Close)

\* ---------------------------------------------------------------- faulty input
\* The program of main.py on a MIDI input that also delivers a data1 byte
\* above 127: pygame hands bytes 0..255 to get_keystrokes.
MALFORMED_DATA1 == 200

FaultyEvents ==
    {<<NOTE_ON, d1, d2>> : d1 \in {PoolKeys[1], MALFORMED_DATA1}, d2 \in {64, 100}}

FaultyBatchSpace == UNION {[1..n -> FaultyEvents] : n \in 1..Min(MaxBatch, MIDI_READS)}

LogicTickFaulty ==
    \/ LogicTickClosed
    \/ LogicTickRead(FALSE, TRUE, <<>>)
    \/ LogicTickRead(TRUE, FALSE, <<>>)
    \/ \E evs \in FaultyBatchSpace : LogicTickRead(TRUE, TRUE, evs)

FaultyNext == LogicTickFaulty \/ ClockTick \/ Interrupt \/ Close

SpecFaulty == Init /\ [][FaultyNext]_vars

\* ---------------------------------------------------------------- codec
\* The codec taken alone: one MIDI event is read and decoded by
\* get_keystrokes, then its keystroke is compared with the keystroke of a
\* second event.
MidiData1 == 0..127

CodecStatus == {128, NOTE_ON, CLOCK}

CodecData2 == {0, 1, 63, 64, 65, 100, 127}

DefaultKeybinds ==
    CHOOSE kb \in KeybindFiles : kb.QUIT = C_8

CodecInit ==
    /\ keybinds = DefaultKeybinds
    /\ PIANO_MODE = FALSE
    /\ sensitivity = SENSITIVITY
    /\ framerate = FRAMERATE
    /\ held_keystrokes = EmptyBag
    /\ pc = "codec_read"
    /\ run = TRUE
    /\ midi_open = TRUE
    /\ displayed = EmptyBag
    /\ keystrokes = <<>>
    /\ applied = <<>>
    /\ moves = <<>>
    /\ clock_only = FALSE
    /\ closed = FALSE
    /\ last_event = [k \in PoolNotes |-> "none"]
    /\ event \in {<<st, d1, d2>> : st \in CodecStatus, d1 \in MidiData1, d2 \in CodecData2}
    /\ other_event \in {<<NOTE_ON, d1, d2>> : d1 \in Data1Values, d2 \in {64, 100}}
    /\ decoded = <<>>
    /\ compared = <<>>
    /\ keys_down = {}
    /\ ControlIdle
    /\ UnitIdle

main_vars == <<held_keystrokes, run, midi_open, displayed, last_event>>

\* midi.get_keystrokes on a read that returns the one event
CodecDecode ==
    /\ pc = "codec_read"
    /\ decoded' = get_keystrokes(TRUE, TRUE, <<event>>)
    /\ pc' = "codec_decoded"
    /\ UNCHANGED <<event, other_event, compared>>
    /\ UNCHANGED <<main_vars, config_vars, frame_vars>>
    /\ UNCHANGED <<keys_down, control_vars, unit_vars>>

\* Keystroke.__eq__, __hash__ and set membership on the two keystrokes
CodecCompare ==
    /\ pc = "codec_decoded"
    /\ LET a == create_keystroke(event)
           b == create_keystroke(other_event)
       IN compared' = [a |-> a, b |-> b,
                       eq |-> py_eq(a, b),
                       hash_eq |-> (py_hash(a) = py_hash(b)),
                       member |-> set_contains(set_add(EmptyBag, a), b)]
    /\ pc' = "codec_done"
    /\ UNCHANGED <<event, other_event, decoded>>
    /\ UNCHANGED <<main_vars, config_vars, frame_vars>>
    /\ UNCHANGED <<keys_down, control_vars, unit_vars>>

CodecNext == CodecDecode \/ CodecCompare

SpecCodec == CodecInit /\ [][CodecNext]_vars

\* ---------------------------------------------------------------- piano_control.py
\* The older program: main starts input_loop and cursor_loop in two threads
\* of a ThreadPoolExecutor; they share the global list held_directions and
\* the Event stop_event.  Its classes Keypress and Action are not in
\* src/packaging.py and are modelled from the way piano_control.py uses them.
A_SHARP_6 == <<"A", "#", "6">>
B_6 == <<"B", "6">>

\* KEYBOARD_KEYBINDS, two of its entries
KEYBOARD_KEYBINDS == (A_SHARP_4 :> "w") @@ (F_4 :> "ctrl")

\* MOUSE_KEYBINDS, one of its entries
MOUSE_KEYBINDS == (G_6 :> "left")

CURSOR_KEYBINDS ==
    (F_6 :> <<-1, 0>>) @@ (C_7 :> <<1, 0>>) @@ (A_SHARP_6 :> <<0, -1>>) @@ (B_6 :> <<0, 1>>)

STOP_KEY == C_8

LETTERS == NOTES

\* SENSITIVITY of piano_control.py
CONTROL_SENSITIVITY == 10

\* the tables of piano_control.py in the shape of Keybinds
ControlKeybinds ==
    [KEYBOARD |-> KEYBOARD_KEYBINDS, MOUSE |-> MOUSE_KEYBINDS, CURSOR |-> CURSOR_KEYBINDS,
     QUIT |-> STOP_KEY, SLOW |-> F_4]

\* Keypress(letter, octave, velocity, timestamp): note is the note id that
\* the tables are keyed by, action is RELEASE for velocity 64 and PRESS for
\* the other velocities of a key event
Keypress(letter, octave, velocity) ==
    [cls |-> "Keypress", note |-> letter \o str_int(octave),
     action |-> IF velocity = 64 THEN "release" ELSE "press"]

\* Keypress()
EmptyKeypress == [cls |-> "Keypress", note |-> <<>>, action |-> "none"]

\* Keypress.is_empty
is_empty(keypress) == keypress.note = <<>>

\* read_input: poll is the result of midi_device.poll(), data is the
\* <<status, data1, data2>> of the one event read
read_input(poll, data) ==
    IF poll /\ data # <<>>
    THEN Keypress(LETTERS[(data[2] % 12) + 1], data[2] \div 12, data[3])
    ELSE EmptyKeypress

\* toggle_device: the device call it makes
toggle_device(keypress, device) ==
    LET hotkey == (KEYBOARD_KEYBINDS @@ MOUSE_KEYBINDS)[keypress.note] IN
    IF keypress.action = "press" THEN <<Call(device, "press", hotkey)>>
    ELSE IF keypress.action = "release" THEN <<Call(device, "release", hotkey)>>
    ELSE <<>>

\* list.remove(x): the list without the first x
RECURSIVE list_remove(_, _)
list_remove(list, x) ==
    IF list = <<>> THEN <<>>
    ELSE IF Head(list) = x THEN Tail(list)
    ELSE <<Head(list)>> \o list_remove(Tail(list), x)

\* update_held_queue: the list held_directions it leaves
update_held_queue(held, keypress) ==
    LET direction == CURSOR_KEYBINDS[keypress.note] IN
    IF keypress.action = "press" /\ direction \notin Range(held)
    THEN Append(held, direction)
    ELSE IF keypress.action = "release" /\ direction \in Range(held)
    THEN list_remove(held, direction)
    ELSE held

\* process_keypress: what it returns, the device calls it makes and the
\* list held_directions it leaves
process_keypress(keypress, piano_mode, held) ==
    IF is_empty(keypress) THEN [stop |-> FALSE, calls |-> <<>>, held |-> held]
    ELSE IF piano_mode THEN [stop |-> FALSE, calls |-> <<>>, held |-> held]
    ELSE [stop |-> (keypress.note = STOP_KEY),
          calls |-> IF keypress.note \in DOMAIN KEYBOARD_KEYBINDS
                    THEN toggle_device(keypress, "keyboard")
                    ELSE IF keypress.note \in DOMAIN MOUSE_KEYBINDS
                    THEN toggle_device(keypress, "mouse")
                    ELSE <<>>,
          held |-> IF /\ keypress.note \notin DOMAIN KEYBOARD_KEYBINDS
                      /\ keypress.note \notin DOMAIN MOUSE_KEYBINDS
                      /\ keypress.note \in DOMAIN CURSOR_KEYBINDS
                   THEN update_held_queue(held, keypress)
                   ELSE held]

\* the body of the for loop of cursor_loop for one direction: the
\* mouse.move calls it makes
cursor_move(held, direction) ==
    IF <<-direction[1], -direction[2]>> \notin Range(held)
    THEN << <<direction[1] * CONTROL_SENSITIVITY, direction[2] * CONTROL_SENSITIVITY>> >>
    ELSE <<>>

\* data1 of the piano keys the player of piano_control.py touches:
\* A#4 (keyboard), F6 and C7 (cursor, opposite directions), C8 (stop)
ControlData1 == {58, 77, 84, 96}

ControlEvents == {<<NOTE_ON, d1, d2>> : d1 \in ControlData1, d2 \in {64, 100}}

\* main of piano_control.py has opened the MIDI input and submitted both loops
ControlInit ==
    /\ keybinds = ControlKeybinds
    /\ PIANO_MODE \in BOOLEAN
    /\ sensitivity = CONTROL_SENSITIVITY
    /\ framerate = FRAMERATE
    /\ held_keystrokes = EmptyBag
    /\ pc = "piano_control"
    /\ run = TRUE
    /\ midi_open = TRUE
    /\ displayed = EmptyBag
    /\ keystrokes = <<>>
    /\ applied = <<>>
    /\ moves = <<>>
    /\ clock_only = FALSE
    /\ closed = FALSE
    /\ last_event = [k \in PoolNotes |-> "none"]
    /\ event = <<>>
    /\ other_event = <<>>
    /\ decoded = <<>>
    /\ compared = <<>>
    /\ keys_down = {}
    /\ held_directions = <<>>
    /\ stop_event = FALSE
    /\ input_pc = "loop"
    /\ cursor_pc = "loop"
    /\ cursor_idx = 0
    /\ main_pc = "wait"
    /\ UnitIdle

program_vars == <<held_keystrokes, pc, run, midi_open, displayed, last_event, keys_down,
                  keystrokes, clock_only, closed>>

\* input_loop finds stop_event set at the top of its loop and returns
InputStopped ==
    /\ input_pc = "loop"
    /\ stop_event
    /\ input_pc' = "done"
    /\ UNCHANGED <<held_directions, stop_event, cursor_pc, cursor_idx, main_pc>>
    /\ UNCHANGED <<applied, moves, program_vars, config_vars, codec_vars, unit_vars>>

\* input_loop gets pygame.QUIT from the window and returns
InputWindowClosed ==
    /\ input_pc = "loop"
    /\ ~stop_event
    /\ input_pc' = "done"
    /\ UNCHANGED <<held_directions, stop_event, cursor_pc, cursor_idx, main_pc>>
    /\ UNCHANGED <<applied, moves, program_vars, config_vars, codec_vars, unit_vars>>

\* one pass of the loop of input_loop: read_input, then process_keypress.
\* applied keeps the keypress of this pass and the device calls made for it.
InputRead(poll, data) ==
    /\ input_pc = "loop"
    /\ ~stop_event
    /\ \E keypress \in {read_input(poll, data)} :
       \E res \in {process_keypress(keypress, PIANO_MODE, held_directions)} :
          /\ held_directions' = res.held
          /\ keys_down' = device_calls(keys_down, res.calls)
          /\ applied' = <<[keypress |-> keypress, calls |-> res.calls, stop |-> res.stop]>>
          /\ input_pc' = IF res.stop THEN "done" ELSE "loop"
    /\ UNCHANGED <<stop_event, cursor_pc, cursor_idx, main_pc>>
    /\ UNCHANGED <<held_keystrokes, pc, run, midi_open, displayed, last_event>>
    /\ UNCHANGED <<keystrokes, clock_only, closed>>
    /\ UNCHANGED <<moves, config_vars, codec_vars, unit_vars>>

InputLoop ==
    \/ InputStopped
    \/ InputWindowClosed
    \/ InputRead(FALSE, <<>>)
    \/ \E data \in ControlEvents : InputRead(TRUE, data)

\* the top of the loop of cursor_loop: it returns when stop_event is set,
\* else it starts the for loop over held_directions.  moves keeps the
\* mouse.move calls of the pass.
CursorTop ==
    /\ cursor_pc = "loop"
    /\ IF stop_event
       THEN cursor_pc' = "done" /\ UNCHANGED <<cursor_idx, moves>>
       ELSE cursor_pc' = "for" /\ cursor_idx' = 0 /\ moves' = <<>>
    /\ UNCHANGED <<held_directions, stop_event, input_pc, main_pc>>
    /\ UNCHANGED <<applied, program_vars, config_vars, codec_vars, unit_vars>>

\* one step of the for loop of cursor_loop: the list iterator gives the next
\* entry of held_directions as the list is now, or ends the loop
CursorStep ==
    /\ cursor_pc = "for"
    /\ IF cursor_idx < Len(held_directions)
       THEN /\ moves' = moves \o cursor_move(held_directions, held_directions[cursor_idx + 1])
            /\ cursor_idx' = cursor_idx + 1
            /\ cursor_pc' = "for"
       ELSE /\ cursor_pc' = "loop"
            /\ UNCHANGED <<cursor_idx, moves>>
    /\ UNCHANGED <<held_directions, stop_event, input_pc, main_pc>>
    /\ UNCHANGED <<applied, program_vars, config_vars, codec_vars, unit_vars>>

\* one pass of the loop of main: it leaves the loop when stop_event is set,
\* else it sets stop_event if one of the two futures is done
MainPoll ==
    /\ main_pc = "wait"
    /\ IF stop_event
       THEN main_pc' = "join" /\ UNCHANGED stop_event
       ELSE /\ stop_event' = (input_pc = "done" \/ cursor_pc = "done")
            /\ main_pc' = "wait"
    /\ UNCHANGED <<held_directions, input_pc, cursor_pc, cursor_idx>>
    /\ UNCHANGED <<applied, moves, program_vars, config_vars, codec_vars, unit_vars>>

\* KeyboardInterrupt in the loop of main
MainInterrupt ==
    /\ main_pc = "wait"
    /\ stop_event' = TRUE
    /\ main_pc' = "join"
    /\ UNCHANGED <<held_directions, input_pc, cursor_pc, cursor_idx>>
    /\ UNCHANGED <<applied, moves, program_vars, config_vars, codec_vars, unit_vars>>

\* the end of the with block of main: the executor has joined both threads,
\* main returns and the program ends.  Nothing closes the MIDI input.
MainJoin ==
    /\ main_pc = "join"
    /\ input_pc = "done"
    /\ cursor_pc = "done"
    /\ main_pc' = "done"
    /\ UNCHANGED <<held_directions, stop_event, input_pc, cursor_pc, cursor_idx>>
    /\ UNCHANGED <<applied, moves, program_vars, config_vars, codec_vars, unit_vars>>

ControlNext == InputLoop \/ CursorTop \/ CursorStep \/ MainPoll \/ MainInterrupt \/ MainJoin

SpecControl == ControlInit /\ [][ControlNext]_vars

\* the three threads of piano_control.py are scheduled again and again;
\* nothing makes MIDI events, a closed window or an interrupt arrive
FairControl ==
    /\ SpecControl
    /\ WF_vars(InputLoop)
    /\ WF_vars(CursorTop)
    /\ WF_vars(CursorStep)
    /\ WF_vars(MainPoll)
    /\ WF_vars(MainJoin)

\* ---------------------------------------------------------------- properties
HeldKeys(held) == {KeyOf(e) : e \in BagToSet(held)}

Handles(i) == i \in DOMAIN applied /\ ~applied[i].quit

\* C1: a key is in the held set exactly when the last keystroke that
\* update_held_keystrokes applied for its note and octave was a press, and
\* it is there once.
C1_HeldIffLastPress ==
    /\ \A k \in PoolNotes : (k \in HeldKeys(held_keystrokes)) <=> (last_event[k] = "press")
    /\ \A e \in BagToSet(held_keystrokes) : CopiesIn(e, held_keystrokes) = 1

\* a key was pressed and released again while another key stays held
C1_Witness ==
    /\ \E k \in PoolNotes : last_event[k] = "release" /\ k \notin HeldKeys(held_keystrokes)
    /\ \E k \in PoolNotes : last_event[k] = "press" /\ k \in HeldKeys(held_keystrokes)

\* C2: two keystrokes are equal and hash equal exactly when they have the
\* same note and octave, whatever their press flags; no other MIDI key has
\* the same string form; the one is a member of a set holding the other
\* exactly when note and octave agree.
C2_EqualityByNoteAndOctave ==
    pc = "codec_done" =>
        /\ (compared.eq /\ compared.hash_eq) <=> (KeyOf(compared.a) = KeyOf(compared.b))
        /\ compared.member <=> (KeyOf(compared.a) = KeyOf(compared.b))
        /\ \A d1 \in MidiData1 :
               (create_keystroke(<<NOTE_ON, d1, 100>>).full_note = compared.a.full_note)
                   => d1 = event[2]

\* a press was compared with the release of the same key and found equal
C2_Witness ==
    /\ pc = "codec_done"
    /\ compared.a.press /\ ~compared.b.press
    /\ compared.eq /\ compared.hash_eq /\ compared.member

\* C3: a press of a key that is already held leaves the held set as it is,
\* and applying the press of a handled keystroke once more changes nothing:
\* same size, one entry per key.
C3_PressIdempotent ==
    \A i \in DOMAIN applied :
        (Handles(i) /\ applied[i].keystroke.press) =>
            /\ (KeyOf(applied[i].keystroke) \in HeldKeys(applied[i].before))
                   => applied[i].after = applied[i].before
            /\ update_held_keystrokes(applied[i].after, applied[i].keystroke).held
                   = applied[i].after
            /\ BagCardinality(applied[i].after) = Cardinality(HeldKeys(applied[i].after))

\* the same press was handled twice in a row in one frame
C3_Witness ==
    \E i \in DOMAIN applied :
        /\ i + 1 \in DOMAIN applied
        /\ Handles(i) /\ Handles(i + 1)
        /\ applied[i].keystroke.press /\ applied[i + 1].keystroke.press
        /\ KeyOf(applied[i].keystroke) = KeyOf(applied[i + 1].keystroke)
        /\ applied[i + 1].after = applied[i].after

PressThenRelease(i) ==
    /\ i \in DOMAIN applied /\ i + 1 \in DOMAIN applied
    /\ Handles(i) /\ Handles(i + 1)
    /\ applied[i].keystroke.press /\ ~applied[i + 1].keystroke.press
    /\ KeyOf(applied[i].keystroke) = KeyOf(applied[i + 1].keystroke)

\* C4 as stated: a press followed by the release of the same key gives back
\* the held set of before the press, for every held set.
C4_RoundTripEveryHeldSet ==
    \A i \in DOMAIN applied :
        PressThenRelease(i) => applied[i + 1].after = applied[i].before

\* C4 amended: a press followed by the release of the same key gives back
\* the held set of before the press when the key was not held before the
\* press; when it was held, the pair leaves the key out of the held set.
C4_RoundTripWhenNotHeld ==
    \A i \in DOMAIN applied :
        PressThenRelease(i) =>
            /\ (KeyOf(applied[i].keystroke) \notin HeldKeys(applied[i].before))
                   => applied[i + 1].after = applied[i].before
            /\ KeyOf(applied[i].keystroke) \notin HeldKeys(applied[i + 1].after)

\* a key that was not held was pressed and released in one frame, with
\* another key held throughout
C4_Witness ==
    \E i \in DOMAIN applied :
        /\ PressThenRelease(i)
        /\ KeyOf(applied[i].keystroke) \notin HeldKeys(applied[i].before)
        /\ applied[i].before # EmptyBag
        /\ applied[i + 1].after = applied[i].before

\* C5: handling a keystroke never raises, and a release of a key that is
\* not held leaves the held set as it is.
C5_ReleaseOfUnheldIsNoOp ==
    \A i \in DOMAIN applied :
        /\ applied[i].raised = ""
        /\ (Handles(i) /\ ~applied[i].keystroke.press
              /\ KeyOf(applied[i].keystroke) \notin HeldKeys(applied[i].before))
               => applied[i].after = applied[i].before

\* a release of a key that is not held was handled while another key is held
C5_Witness ==
    \E i \in DOMAIN applied :
        /\ Handles(i) /\ ~applied[i].keystroke.press
        /\ KeyOf(applied[i].keystroke) \notin HeldKeys(applied[i].before)
        /\ applied[i].before # EmptyBag
        /\ applied[i].after = applied[i].before
        /\ applied[i].raised = ""

Kept(ev) == ev[1] # CLOCK /\ ev[3] # 0

\* C6: every event that passes the filter decodes, for every data1 in
\* 0..127, to one keystroke with data1 = 12 * octave + index, index in 0..11
\* and note = NOTES[index].
C6_DecodeOctaveAndNote ==
    (pc \in {"codec_decoded", "codec_done"} /\ Kept(event)) =>
        /\ Len(decoded) = 1
        /\ decoded[1].cls = "Keystroke"
        /\ \E index \in 0..11 :
               /\ event[2] = 12 * decoded[1].octave + index
               /\ decoded[1].note = NOTES[index + 1]
        /\ decoded[1].octave >= 0

\* the highest MIDI key was decoded: G of octave 10
C6_Witness ==
    /\ pc = "codec_decoded"
    /\ event[2] = 127
    /\ Len(decoded) = 1
    /\ decoded[1].note = <<"G">> /\ decoded[1].octave = 10

\* C7: a non-clock event decodes to nothing when data2 is 0, to a release
\* when data2 is 64 and to a press for every other data2.
C7_VelocityDecidesAction ==
    (pc \in {"codec_decoded", "codec_done"} /\ event[1] # CLOCK) =>
        IF event[3] = 0 THEN decoded = <<>>
        ELSE /\ Len(decoded) = 1
             /\ decoded[1].cls = "Keystroke"
             /\ decoded[1].press <=> (event[3] # 64)

\* a velocity below 64 was decoded as a press
C7_Witness ==
    /\ pc = "codec_decoded"
    /\ event[1] # CLOCK
    /\ event[3] = 1
    /\ Len(decoded) = 1
    /\ decoded[1].press

\* C8: a frame whose read returns only clock events yields no keystroke,
\* handles none, leaves the held set as it is and makes no button call.
C8_ClockEventsDiscarded ==
    [][(pc = "logic_tick" /\ clock_only') =>
          /\ keystrokes' = <<>>
          /\ applied' = <<>>
          /\ held_keystrokes' = held_keystrokes]_vars

\* a read returned clock events with a press velocity while a key was held
C8_Witness ==
    /\ clock_only
    /\ pc = "clock_tick"
    /\ held_keystrokes # EmptyBag
    /\ keystrokes = <<>>

ButtonOp(keystroke) == IF keystroke.press THEN "press" ELSE "release"

\* C9 as stated: outside piano mode a keystroke has the one effect of the
\* first match in the order quit, keyboard table, mouse table, and no
\* effect of a later table.
C9_FirstMatchWins ==
    ~PIANO_MODE =>
        \A i \in DOMAIN applied :
            LET k == applied[i].keystroke
                id == k.full_note
            IN IF id = keybinds.QUIT
               THEN applied[i].quit /\ applied[i].calls = <<>>
               ELSE IF id \in DOMAIN keybinds.KEYBOARD
               THEN applied[i].calls
                        = <<Call("keyboard", ButtonOp(k), keybinds.KEYBOARD[id])>>
               ELSE IF id \in DOMAIN keybinds.MOUSE
               THEN applied[i].calls = <<Call("mouse", ButtonOp(k), keybinds.MOUSE[id])>>
               ELSE applied[i].calls = <<>>

\* C10 as stated: outside piano mode a keystroke bound in the keyboard table
\* (or, failing that, the mouse table) makes the press call of its device
\* key when it is a press and the release call when it is a release.
C10_BoundKeyToggles ==
    ~PIANO_MODE =>
        \A i \in DOMAIN applied :
            LET k == applied[i].keystroke
                id == k.full_note
            IN (id # keybinds.QUIT) =>
                   /\ (id \in DOMAIN keybinds.KEYBOARD) =>
                          \E c \in Range(applied[i].calls) :
                              /\ c.dev = "keyboard"
                              /\ c.hotkey = keybinds.KEYBOARD[id]
                              /\ c.op = (IF k.press THEN "press" ELSE "release")
                   /\ (id \notin DOMAIN keybinds.KEYBOARD /\ id \in DOMAIN keybinds.MOUSE) =>
                          \E c \in Range(applied[i].calls) :
                              /\ c.dev = "mouse"
                              /\ c.hotkey = keybinds.MOUSE[id]
                              /\ c.op = (IF k.press THEN "press" ELSE "release")

\* the string forms of the keys of a held set
HeldIds(held) == {e.full_note : e \in BagToSet(held)}

\* C11 as stated: outside piano mode a keystroke whose string form is the
\* quit identity makes the logic tick report stop: it is handled as the
\* quit, it is the last keystroke handled in the frame, the held set is
\* left alone and the loop of Program.run does not run on.
C11_QuitKeyStops ==
    ~PIANO_MODE =>
        \A i \in DOMAIN applied :
            (applied[i].keystroke.full_note = keybinds.QUIT) =>
                /\ applied[i].quit
                /\ applied[i].after = applied[i].before
                /\ i = Len(applied)
                /\ ~run

\* the loop of Program.run has left RUNNING
Stopped == ~run \/ pc \in {"close", "exited"}

\* C12: once the loop has left RUNNING it stays out of it and runs no
\* further logic tick: the held set, the display and the record of applied
\* actions stay as they are, and no keystroke is read, no device call and no
\* cursor move is made; the loop then reaches STOPPED.  A tick that finds
\* the display closed reads no MIDI event and changes nothing.
C12_NoTickAfterStop ==
    /\ [][Stopped =>
             /\ Stopped'
             /\ pc' # "logic_tick"
             /\ held_keystrokes' = held_keystrokes
             /\ displayed' = displayed
             /\ last_event' = last_event
             /\ keystrokes' \in {keystrokes, <<>>}
             /\ applied' \in {applied, <<>>}
             /\ moves' \in {moves, <<>>}]_vars
    /\ [][(pc = "logic_tick" /\ closed') =>
             /\ keystrokes' = <<>> /\ applied' = <<>> /\ moves' = <<>>
             /\ held_keystrokes' = held_keystrokes
             /\ displayed' = displayed
             /\ last_event' = last_event
             /\ midi_open' = midi_open
             /\ ~run']_vars
    /\ Stopped ~> (pc = "exited")

\* a tick found the display closed while a key was held and drawn
C12_Witness ==
    /\ closed
    /\ pc = "clock_tick"
    /\ ~run
    /\ held_keystrokes # EmptyBag
    /\ displayed = held_keystrokes

DirectionIds(kb, held) == HeldIds(held) \cap DOMAIN kb.CURSOR

\* a logic tick of this frame ran to its end, process_cursor and
\* Display.refresh included
TickDone == pc = "clock_tick" /\ run /\ ~closed

\* the held direction keys are two keys bound to exactly opposite directions
OppositePair(kb, held) ==
    \E a, b \in DirectionIds(kb, held) :
        /\ a # b
        /\ DirectionIds(kb, held) = {a, b}
        /\ kb.CURSOR[a][1] = - kb.CURSOR[b][1]
        /\ kb.CURSOR[a][2] = - kb.CURSOR[b][2]

\* C14: outside piano mode, after a tick that leaves two keys bound to
\* exactly opposite directions held, and no other direction key, no
\* mouse.move call of the tick has a horizontal component: dx is 0.
C14_OppositeDirectionsCancel ==
    (TickDone /\ ~PIANO_MODE /\ OppositePair(keybinds, held_keystrokes)) =>
        \A i \in DOMAIN moves : moves[i][1] = 0

\* a tick ended with the keys bound to (-1, 0) and (1, 0) both held
C14_Witness ==
    /\ TickDone /\ ~PIANO_MODE
    /\ OppositePair(keybinds, held_keystrokes)
    /\ \E a \in DirectionIds(keybinds, held_keystrokes) : keybinds.CURSOR[a] = <<-1, 0>>
    /\ \E b \in DirectionIds(keybinds, held_keystrokes) : keybinds.CURSOR[b] = <<1, 0>>
    /\ \A i \in DOMAIN moves : moves[i][1] = 0

\* sum of one axis of the directions bound to a set of note ids
RECURSIVE DirectionSum(_, _, _)
DirectionSum(kb, ids, axis) ==
    IF ids = {} THEN 0
    ELSE LET a == CHOOSE x \in ids : TRUE IN
         kb.CURSOR[a][axis] + DirectionSum(kb, ids \ {a}, axis)

\* C15 as stated: outside piano mode, a tick that leaves keys bound in the
\* cursor table held makes one relative mouse.move of (sum of the x
\* components * moveFactor, sum of the y components * moveFactor) over these
\* keys, with moveFactor = round(sensitivity / framerate * speed) and speed 1
\* or 5; with sensitivity 100, framerate 60, the slow key not held and the
\* one direction (1, 0) held the move is (8, 0).
C15_DeltaIsScaledSum ==
    (TickDone /\ ~PIANO_MODE /\ DirectionIds(keybinds, held_keystrokes) # {}) =>
        LET ids == DirectionIds(keybinds, held_keystrokes) IN
        /\ \E speed \in {1, 5} :
               moves = << <<DirectionSum(keybinds, ids, 1)
                               * py_round(sensitivity * speed, framerate),
                            DirectionSum(keybinds, ids, 2)
                               * py_round(sensitivity * speed, framerate)>> >>
        /\ ( /\ sensitivity = 100 /\ framerate = 60
             /\ keybinds.SLOW \notin HeldIds(held_keystrokes)
             /\ \E a \in ids : ids = {a} /\ keybinds.CURSOR[a] = <<1, 0>> )
               => moves = << <<8, 0>> >>

\* C16 as stated: outside piano mode, at the end of every tick the speed
\* that process_cursor takes from the held set is 1 when the key whose
\* string form is the slow identity is held, and 5 when it is not.
C16_SlowKeySetsSpeed ==
    (TickDone /\ ~PIANO_MODE) =>
        cursor_speed(keybinds, held_keystrokes)
            = (IF keybinds.SLOW \in HeldIds(held_keystrokes) THEN 1 ELSE 5)

\* C17: a tick that leaves no key bound in the cursor table held, an empty
\* held set included, makes no mouse.move call.
C17_NoDirectionNoMove ==
    (pc = "clock_tick" /\ DirectionIds(keybinds, held_keystrokes) = {}) =>
        moves = <<>>

\* outside piano mode a tick ended with a key held that the cursor table
\* does not bind, and made no move
C17_Witness ==
    /\ TickDone /\ ~PIANO_MODE
    /\ held_keystrokes # EmptyBag
    /\ DirectionIds(keybinds, held_keystrokes) = {}
    /\ keybinds.CURSOR # EMPTY_DICT
    /\ moves = <<>>

C19_PianoModeDisplayOnly ==
    PIANO_MODE =>
        /\ moves = <<>>
        /\ Len(applied) = Len(keystrokes)
        /\ \A i \in DOMAIN applied :
               /\ applied[i].keystroke = keystrokes[i]
               /\ applied[i].calls = <<>>
               /\ ~applied[i].quit
               /\ applied[i].after
                      = update_held_keystrokes(applied[i].before, applied[i].keystroke).held
        /\ (pc = "clock_tick" /\ ~closed) =>
               /\ run
               /\ displayed = held_keystrokes
               /\ applied # <<>> => held_keystrokes = applied[Len(applied)].after

\* in piano mode a tick handled the press of a key that the keyboard table
\* binds and that is the quit key: the key is held and drawn, no call made
C19_Witness ==
    /\ PIANO_MODE
    /\ pc = "clock_tick" /\ run
    /\ \E i \in DOMAIN applied :
           /\ applied[i].keystroke.press
           /\ applied[i].keystroke.full_note \in DOMAIN keybinds.KEYBOARD
           /\ applied[i].keystroke.full_note = keybinds.QUIT
           /\ applied[i].after # applied[i].before
           /\ applied[i].calls = <<>>
    /\ held_keystrokes # EmptyBag
    /\ displayed = held_keystrokes

\* C20: the held set changes in a logic tick alone and only by
\* update_held_keystrokes: each keystroke of the tick finds the held set as
\* update_held_keystrokes left it for the keystroke before (process_button
\* in between does not write it), the tick ends with the held set that the
\* last update left (process_cursor and Display.refresh do not write it),
\* and the display shows what it showed or the held set.
C20_HeldWrittenByUpdateOnly ==
    [][ /\ (held_keystrokes' # held_keystrokes) =>
               (pc = "logic_tick" /\ applied' # <<>>)
        /\ (pc = "logic_tick") =>
               /\ \A i \in DOMAIN applied' :
                      /\ applied'[i].before
                             = (IF i = 1 THEN held_keystrokes ELSE applied'[i - 1].after)
                      /\ applied'[i].after
                             = (IF applied'[i].quit THEN applied'[i].before
                                ELSE update_held_keystrokes(applied'[i].before,
                                                            applied'[i].keystroke).held)
               /\ held_keystrokes'
                      = (IF applied' = <<>> THEN held_keystrokes
                         ELSE applied'[Len(applied')].after)
               /\ displayed' \in {displayed, held_keystrokes'} ]_vars

\* outside piano mode a tick handled two keystrokes, the first a press that
\* changed the held set, and ran process_cursor and Display.refresh on a
\* held set with a key of the cursor table in it
C20_Witness ==
    /\ TickDone /\ ~PIANO_MODE
    /\ Len(applied) = 2
    /\ applied[1].keystroke.press
    /\ applied[1].after # applied[1].before
    /\ applied[2].before = applied[1].after
    /\ held_keystrokes = applied[2].after
    /\ DirectionIds(keybinds, held_keystrokes) # {}
    /\ displayed = held_keystrokes

\* C21 as stated: while the for loop of cursor_loop is iterating over
\* held_directions, no step inserts into the list or removes from it.
C21_IterationExcludesWrites ==
    [][(cursor_pc = "for") => held_directions' = held_directions]_vars

\* both loops of piano_control.py test stop_event at the top of a pass and
\* return when it is set, without another read or move
StopFlagObserved ==
    [][ /\ (stop_event /\ input_pc = "loop" /\ input_pc' # input_pc) =>
               (input_pc' = "done" /\ held_directions' = held_directions
                    /\ applied' = applied)
        /\ (stop_event /\ cursor_pc = "loop" /\ cursor_pc' # cursor_pc) =>
               (cursor_pc' = "done" /\ moves' = moves) ]_vars

\* once input_loop has returned or stop_event is set, stop_event gets set and
\* both loops return
BothLoopsEnd ==
    (input_pc = "done" \/ stop_event)
        ~> (stop_event /\ input_pc = "done" /\ cursor_pc = "done")

\* the MIDI input is closed when the program has ended
HandleClosedAtEnd ==
    [](main_pc = "done" => ~midi_open)

\* C22 as stated: both loops test the stop flag at the top of each pass and
\* return once it is set; after the input loop has ended or an interrupt
\* has come the flag is set and both loops end; and the MIDI input is
\* closed as teardown.
C22_CooperativeShutdown ==
    StopFlagObserved /\ BothLoopsEnd /\ HandleClosedAtEnd

\* the MIDI key number that decodes to a keystroke
NoteNumber(keystroke) ==
    12 * keystroke.octave + (CHOOSE i \in 0..11 : NOTES[i + 1] = keystroke.note)

\* get_keystrokes hands Keystroke objects to the loop and no exception
ReadReturnsKeystrokes ==
    [](\A i \in DOMAIN keystrokes : keystrokes[i].cls = "Keystroke")

\* a tick whose read gave no keystroke handles none, leaves the held set as
\* it is and leaves the loop running, unless an interrupt ends it
EmptyReadChangesNothing ==
    [][(pc = "logic_tick" /\ ~closed' /\ keystrokes' = <<>>) =>
          /\ applied' = <<>>
          /\ held_keystrokes' = held_keystrokes
          /\ keys_down' = keys_down
          /\ run' /\ pc' \in {"clock_tick", "close"}]_vars

\* no keystroke comes out of a data1 byte outside 0..127
MalformedByteDiscarded ==
    [](\A i \in DOMAIN keystrokes : NoteNumber(keystrokes[i]) \in 0..127)

\* C23 as stated: get_keystrokes returns a list and raises nothing; a failed
\* read, an empty poll and a data1 byte outside 0..127 give no keystroke to
\* the loop, so that the held set stays as it is, nothing is dispatched and
\* the loop stays RUNNING.
C23_ReadNeverFails ==
    ReadReturnsKeystrokes /\ EmptyReadChangesNothing /\ MalformedByteDiscarded

\* ---- C24 ----
\* the held set that update_held_keystrokes leaves after the keystrokes of a
\* batch, taken in the order of the batch
RECURSIVE HeldAfter(_, _)
HeldAfter(held, batch) ==
    IF batch = <<>> THEN held
    ELSE HeldAfter(update_held_keystrokes(held, Head(batch)).held, Tail(batch))

\* C24: a logic tick that returns True has handled every keystroke that
\* get_keystrokes returned, in the order of arrival, each by a call of
\* update_held_keystrokes followed (outside piano mode) by a call of
\* process_button, and has then handed Display.refresh the held set that the
\* updates of the whole batch, applied in that order to the held set the tick
\* started with, produce.
C24_ArrivalOrderThenRefresh ==
    [][ (pc = "logic_tick" /\ pc' = "clock_tick" /\ run' /\ ~closed') =>
            /\ Len(applied') = Len(keystrokes')
            /\ \A i \in DOMAIN applied' :
                   /\ applied'[i].keystroke = keystrokes'[i]
                   /\ applied'[i].steps
                          = (IF PIANO_MODE THEN <<"update_held_keystrokes">>
                             ELSE <<"update_held_keystrokes", "process_button">>)
            /\ held_keystrokes' = HeldAfter(held_keystrokes, keystrokes')
            /\ displayed' = held_keystrokes' ]_vars

\* a tick that returned True handled two keystrokes of one key, the press
\* first and the release second, and drew a held set without that key
C24_Witness ==
    /\ TickDone
    /\ Len(applied) = 2
    /\ applied[1].keystroke.press
    /\ ~applied[2].keystroke.press
    /\ KeyOf(applied[1].keystroke) = KeyOf(applied[2].keystroke)
    /\ applied[1].steps # <<>>
    /\ KeyOf(applied[1].keystroke) \in HeldKeys(applied[1].after)
    /\ KeyOf(applied[1].keystroke) \notin HeldKeys(displayed)
    /\ displayed = held_keystrokes

\* ---------------------------------------------------------------------
\* The two cursor policies side by side: the same key events are fed to the
\* held set of main.py and to the held list of piano_control.py, and one
\* cursor pass of each program is run on what they hold.
\* ---------------------------------------------------------------------

\* data1 of the keys of CURSOR_KEYBINDS (F6, A#6, B6, C7) and of the slow
\* key F4
PolicyData1 == {77, 82, 83, 84, 53}

PolicyEvents == {<<NOTE_ON, d1, d2>> : d1 \in PolicyData1, d2 \in {64, 100}}

\* one pass of the for loop of cursor_loop over a list that no other thread
\* writes meanwhile, from index i on: the mouse.move calls it makes
RECURSIVE cursor_pass(_, _)
cursor_pass(held, i) ==
    IF i > Len(held) THEN <<>>
    ELSE cursor_move(held, held[i]) \o cursor_pass(held, i + 1)

\* both programs have started with the tables of piano_control.py and hold
\* nothing; policy_keys tells for each direction key whether the player
\* holds it down
PolicyInit ==
    /\ keybinds = ControlKeybinds
    /\ PIANO_MODE = FALSE
    /\ sensitivity = SENSITIVITY
    /\ framerate = FRAMERATE
    /\ held_keystrokes = EmptyBag
    /\ pc = "policy_feed"
    /\ run = TRUE
    /\ midi_open = TRUE
    /\ displayed = EmptyBag
    /\ keystrokes = <<>>
    /\ applied = <<>>
    /\ moves = <<>>
    /\ clock_only = FALSE
    /\ closed = FALSE
    /\ last_event = [k \in PoolNotes |-> "none"]
    /\ event = <<>>
    /\ other_event = <<>>
    /\ decoded = <<>>
    /\ compared = <<>>
    /\ keys_down = {}
    /\ ControlIdle
    /\ ctor_args = <<>>
    /\ ctor_result = <<>>
    /\ policy_keys = [k \in DOMAIN CURSOR_KEYBINDS |-> FALSE]
    /\ policy_result = <<>>

\* one key event read by both programs: the for loop of _logic_tick of
\* main.py and read_input / process_keypress of piano_control.py
PolicyFeed(data) ==
    /\ pc \in {"policy_feed", "policy_resolved"}
    /\ \E res \in {handle_keystrokes(keybinds, PIANO_MODE,
                                     get_keystrokes(TRUE, TRUE, <<data>>),
                                     held_keystrokes, <<>>)} :
          /\ res.raised = ""
          /\ ~res.quit
          /\ held_keystrokes' = res.held
          /\ keys_down' = device_calls(keys_down, calls_of(res.done))
    /\ \E keypress \in {read_input(TRUE, data)} :
          /\ held_directions' = process_keypress(keypress, PIANO_MODE, held_directions).held
          /\ policy_keys' = IF keypress.note \in DOMAIN policy_keys
                            THEN [policy_keys EXCEPT ![keypress.note] = (data[3] # 64)]
                            ELSE policy_keys
    /\ pc' = "policy_feed"
    /\ policy_result' = <<>>
    /\ UNCHANGED <<run, midi_open, displayed, last_event, frame_vars>>
    /\ UNCHANGED <<stop_event, input_pc, cursor_pc, cursor_idx, main_pc>>
    /\ UNCHANGED <<config_vars, codec_vars, ctor_args, ctor_result>>

\* Program.process_cursor of main.py and one pass of cursor_loop of
\* piano_control.py, each on what its program holds
PolicyResolve ==
    /\ pc = "policy_feed"
    /\ pc' = "policy_resolved"
    /\ policy_result' =
           [summed |-> process_cursor(keybinds, held_keystrokes, sensitivity, framerate),
            excluded |-> cursor_pass(held_directions, 1)]
    /\ UNCHANGED <<held_keystrokes, run, midi_open, displayed, last_event, keys_down>>
    /\ UNCHANGED <<frame_vars, control_vars, config_vars, codec_vars>>
    /\ UNCHANGED <<ctor_args, ctor_result, policy_keys>>

PolicyNext ==
    \/ \E data \in PolicyEvents : PolicyFeed(data)
    \/ PolicyResolve

SpecPolicy == PolicyInit /\ [][PolicyNext]_vars

\* ---- C25 ----
\* the sum of the vectors of a sequence of mouse.move calls
RECURSIVE Net(_)
Net(calls) ==
    IF calls = <<>> THEN <<0, 0>>
    ELSE LET rest == Net(Tail(calls)) IN
         <<Head(calls)[1] + rest[1], Head(calls)[2] + rest[2]>>

\* two vectors point the same way: both are zero, or one is a positive
\* multiple of the other
SameDirection(a, b) ==
    /\ (a = <<0, 0>>) <=> (b = <<0, 0>>)
    /\ a[1] * b[2] = a[2] * b[1]
    /\ a[1] * b[1] + a[2] * b[2] >= 0

\* C25: whatever direction keys the player holds, the one move that
\* process_cursor of main.py makes and the moves that one pass of cursor_loop
\* of piano_control.py makes add up to vectors that point the same way.
C25_PoliciesAgree ==
    (pc = "policy_resolved") =>
        SameDirection(Net(policy_result.summed), Net(policy_result.excluded))

\* the two programs hold the same direction keys, the ones the player holds
C25_SameKeysHeld ==
    (pc = "policy_resolved") =>
        /\ Range(held_directions) = {CURSOR_KEYBINDS[k] : k \in {n \in DOMAIN policy_keys : policy_keys[n]}}
        /\ {e.full_note : e \in BagToSet(held_keystrokes)} \cap DOMAIN CURSOR_KEYBINDS
               = {n \in DOMAIN policy_keys : policy_keys[n]}

\* ---------------------------------------------------------------------
\* Keystroke.__init__ on its own: one call with arguments of the caller's
\* choice.
\* ---------------------------------------------------------------------

\* notes a caller may pass: the twelve names, names in lower case, and
\* strings that are no note name
CtorNotes == Range(NOTES) \cup {<<"c">>, <<"f", "#">>, <<"H">>, <<"C", "b">>, <<>>}

\* octaves a caller may pass
CtorOctaves == (0 - 2)..9

\* a caller is about to call Keystroke(note, octave, press)
CtorInit ==
    /\ keybinds = ControlKeybinds
    /\ PIANO_MODE = FALSE
    /\ sensitivity = SENSITIVITY
    /\ framerate = FRAMERATE
    /\ held_keystrokes = EmptyBag
    /\ pc = "ctor_call"
    /\ run = TRUE
    /\ midi_open = TRUE
    /\ displayed = EmptyBag
    /\ keystrokes = <<>>
    /\ applied = <<>>
    /\ moves = <<>>
    /\ clock_only = FALSE
    /\ closed = FALSE
    /\ last_event = [k \in PoolNotes |-> "none"]
    /\ event = <<>>
    /\ other_event = <<>>
    /\ decoded = <<>>
    /\ compared = <<>>
    /\ keys_down = {}
    /\ ControlIdle
    /\ ctor_args \in {[note |-> n, octave |-> o, press |-> p] :
                          n \in CtorNotes, o \in CtorOctaves, p \in BOOLEAN}
    /\ ctor_result = <<>>
    /\ policy_keys = <<>>
    /\ policy_result = <<>>

\* Keystroke.__init__: ctor_result is the object made or the exception raised
KeystrokeInit ==
    /\ pc = "ctor_call"
    /\ pc' = "ctor_done"
    /\ ctor_result' = Keystroke(ctor_args.note, ctor_args.octave, ctor_args.press)
    /\ UNCHANGED <<held_keystrokes, run, midi_open, displayed, last_event, keys_down>>
    /\ UNCHANGED <<frame_vars, control_vars, config_vars, codec_vars>>
    /\ UNCHANGED <<ctor_args, policy_keys, policy_result>>

CtorNext == KeystrokeInit

SpecCtor == CtorInit /\ [][CtorNext]_vars

\* ---- C26 ----
\* a call with a note that is no note name fails with a ValueError
InvalidNoteRejected ==
    (pc = "ctor_done" /\ upper(ctor_args.note) \notin Range(NOTES)) =>
        ctor_result.cls = "ValueError"

\* every Keystroke made has one of the twelve note names and an octave >= 0
ConstructedIsValid ==
    (pc = "ctor_done" /\ ctor_result.cls = "Keystroke") =>
        /\ ctor_result.note \in Range(NOTES)
        /\ ctor_result.octave >= 0

\* a call with a negative octave fails with a ValueError
NegativeOctaveRejected ==
    (pc = "ctor_done" /\ ctor_args.octave < 0) => ctor_result.cls = "ValueError"

\* C26: a call of Keystroke with a note outside the twelve note names or
\* with a negative octave fails with a ValueError and makes no Keystroke, and
\* every Keystroke made has a valid note and an octave >= 0.
C26_ConstructorValidates ==
    /\ InvalidNoteRejected
    /\ ConstructedIsValid
    /\ NegativeOctaveRejected

\* ---- C27 ----
\* the keyboard and mouse tables bind distinct note ids to distinct device
\* keys, and no note id in both
ButtonTablesInjective ==
    /\ DOMAIN keybinds.KEYBOARD \cap DOMAIN keybinds.MOUSE = {}
    /\ \A a, b \in DOMAIN keybinds.KEYBOARD :
           keybinds.KEYBOARD[a] = keybinds.KEYBOARD[b] => a = b
    /\ \A a, b \in DOMAIN keybinds.MOUSE :
           keybinds.MOUSE[a] = keybinds.MOUSE[b] => a = b

\* C27: outside piano mode and with injective button tables, between the
\* keystrokes the key of the emulated keyboard or mouse that a note id is
\* bound to is down exactly when the piano key of that note id is in the
\* held set.
C27_DeviceKeyDownIffHeld ==
    (~PIANO_MODE /\ ButtonTablesInjective) =>
        /\ \A n \in DOMAIN keybinds.KEYBOARD :
               (<<"keyboard", keybinds.KEYBOARD[n]>> \in keys_down)
                   <=> (n \in HeldIds(held_keystrokes))
        /\ \A n \in DOMAIN keybinds.MOUSE :
               (<<"mouse", keybinds.MOUSE[n]>> \in keys_down)
                   <=> (n \in HeldIds(held_keystrokes))

\* ---- C28 ----
\* the positions of the keystrokes with the quit identity in a batch
QuitPositions(batch) == {i \in DOMAIN batch : batch[i].full_note = keybinds.QUIT}

\* the least element of a nonempty set of numbers
Least(S) == CHOOSE i \in S : \A j \in S : i <= j

\* C28: outside piano mode, a tick whose batch holds a keystroke with the
\* quit identity handles the keystrokes before the first such keystroke in
\* order, each by update_held_keystrokes and process_button, takes the quit
\* keystroke as the quit without adding it to the held set or making a device
\* call for it, handles none of the keystrokes after it, makes no cursor move
\* and leaves the display as it was.
C28_QuitInsideBatch ==
    [][ (pc = "logic_tick" /\ ~PIANO_MODE /\ QuitPositions(keystrokes') # {}) =>
            LET q == Least(QuitPositions(keystrokes')) IN
            /\ Len(applied') = q
            /\ \A j \in 1..(q - 1) :
                   /\ applied'[j].keystroke = keystrokes'[j]
                   /\ applied'[j].steps = <<"update_held_keystrokes", "process_button">>
            /\ applied'[q].keystroke = keystrokes'[q]
            /\ applied'[q].quit
            /\ applied'[q].steps = <<>>
            /\ applied'[q].calls = <<>>
            /\ held_keystrokes' = HeldAfter(held_keystrokes, SubSeq(keystrokes', 1, q - 1))
            /\ moves' = <<>>
            /\ displayed' = displayed
            /\ ~run' ]_vars

\* ---- C29 ----
\* C29: in piano mode a keystroke with the quit identity is handled as any
\* other keystroke, by update_held_keystrokes alone and not as the quit; the
\* tick that read it returns True with the display drawn from the held set
\* it left; and the loop of Program.run leaves RUNNING only by a tick that
\* finds the display closed or by an interrupt, never by a keystroke.
C29_PianoModeIgnoresQuit ==
    [][ PIANO_MODE =>
            /\ (pc = "logic_tick") =>
                   /\ \A i \in DOMAIN applied' :
                          (applied'[i].keystroke.full_note = keybinds.QUIT) =>
                              /\ ~applied'[i].quit
                              /\ applied'[i].steps = <<"update_held_keystrokes">>
                              /\ applied'[i].after
                                     = update_held_keystrokes(applied'[i].before,
                                                              applied'[i].keystroke).held
                   /\ (QuitPositions(keystrokes') # {}) =>
                          /\ pc' = "clock_tick"
                          /\ run'
                          /\ Len(applied') = Len(keystrokes')
                          /\ displayed' = held_keystrokes'
            /\ (~Stopped /\ Stopped') =>
                   \/ closed'
                   \/ (pc' = "close" /\ keystrokes' = keystrokes /\ applied' = applied) ]_vars

\* in piano mode a tick read the press of the quit key and then another
\* keystroke, handled both, and the loop runs on with the quit key held and
\* drawn
C29_Witness ==
    /\ PIANO_MODE
    /\ TickDone
    /\ Len(applied) = 2
    /\ applied[1].keystroke.full_note = keybinds.QUIT
    /\ applied[1].keystroke.press
    /\ applied[2].keystroke.full_note # keybinds.QUIT
    /\ keybinds.QUIT \in HeldIds(held_keystrokes)
    /\ keybinds.QUIT \in HeldIds(displayed)

\* the same of piano_control.py: in piano mode process_keypress reports stop
\* for no keypress, the stop key included, and makes no device call
PianoControlIgnoresStopKey ==
    (pc = "piano_control" /\ PIANO_MODE) =>
        \A i \in DOMAIN applied : ~applied[i].stop /\ applied[i].calls = <<>>

====
